---- MODULE Spec2Model ----
(***************************************************************************)
(* Forecasting/analytics core of the SEO forecaster: safe_div, the        *)
(* CTR-by-position curve of SEOAnalyzer and the projection pipeline of    *)
(* SEOForecaster.                                                          *)
(*                                                                         *)
(* Numbers.  A Python/numpy float is modelled as a record                  *)
(*   [k |-> "fin", n |-> numerator, d |-> denominator]  (exact rational,   *)
(*   reduced, d > 0), [k |-> "nan"] or [k |-> "inf", n |-> sign].          *)
(* Arithmetic follows IEEE-754 for the non-finite values; finite values    *)
(* are exact (binary rounding error below 1e-15 is not modelled).          *)
(***************************************************************************)
EXTENDS Integers, Sequences, FiniteSets, TLC

VARIABLES
    observed,          \* library default of groupby(observed=...) in this build
    avg_improvement,   \* the scenario's avg_improvement, fixed for a session
    df,                \* the caller's table (columns and rows)
    ctr_by_position,   \* SEOAnalyzer.ctr_by_position of the session's analyzer
    lookup,            \* last get_ctr_for_position call on that analyzer
    calls,             \* per horizon: the forecast_performance calls made so far
    ncalls,            \* number of forecast_performance calls made
    sd,                \* the last call, when it was safe_div on floats
    sd_any,            \* the last call, when it was safe_div on arbitrary objects
    tv,                \* last direct _calculate_traffic_value call
    roi,               \* last calculate_roi_potential call
    opp,               \* last identify_opportunities call
    df2,               \* a second caller's table
    reqs,              \* forecast requests in flight on one forecaster
    merged,            \* last merge_data call
    hist,              \* the builds made on the session's analyzer
    timeline           \* last create_timeline_forecast call

\* the variables of the loader, build-history and timeline calls
moreVars == <<merged, hist, timeline>>

\* the variables of the unit-level and concurrent calls
unitVars == <<sd_any, tv, roi, opp, df2, reqs, moreVars>>

vars == <<observed, avg_improvement, df, ctr_by_position, lookup, calls, ncalls, sd,
          unitVars>>

----------------------------------------------------------------------------
(* Floats *)

Abs(i) == IF i < 0 THEN -i ELSE i

RECURSIVE GCD(_, _)
GCD(a, b) == IF b = 0 THEN a ELSE GCD(b, a % b)

\* the finite float n/d (d # 0), in canonical form
Fin(n, d) ==
    LET g == GCD(Abs(n), Abs(d))
        s == IF d < 0 THEN -1 ELSE 1
    IN  [k |-> "fin", n |-> (s * n) \div g, d |-> Abs(d) \div g]

Num(i) == [k |-> "fin", n |-> i, d |-> 1]
NaN == [k |-> "nan", n |-> 0, d |-> 1]
Inf(s) == [k |-> "inf", n |-> s, d |-> 1]

IsNaN(x) == x.k = "nan"
IsInf(x) == x.k = "inf"
IsFinite(x) == x.k = "fin"
Sign(x) == IF x.n > 0 THEN 1 ELSE IF x.n < 0 THEN -1 ELSE 0

Neg(x) == [x EXCEPT !.n = -x.n]

Add(a, b) ==
    IF IsNaN(a) \/ IsNaN(b) THEN NaN
    ELSE IF IsInf(a) /\ IsInf(b) THEN (IF a.n = b.n THEN a ELSE NaN)
    ELSE IF IsInf(a) THEN a
    ELSE IF IsInf(b) THEN b
    ELSE Fin(a.n * b.d + b.n * a.d, a.d * b.d)

Sub(a, b) == Add(a, Neg(b))

Mul(a, b) ==
    IF IsNaN(a) \/ IsNaN(b) THEN NaN
    ELSE IF IsInf(a) \/ IsInf(b)
         THEN (IF Sign(a) * Sign(b) = 0 THEN NaN ELSE Inf(Sign(a) * Sign(b)))
    ELSE Fin(a.n * b.n, a.d * b.d)

\* a / b on floats; b = 0 is the numpy result (Python floats raise instead,
\* see safe_div)
TrueDiv(a, b) ==
    IF IsNaN(a) \/ IsNaN(b) THEN NaN
    ELSE IF IsInf(a) THEN (IF IsInf(b) THEN NaN
                           ELSE Inf(a.n * (IF b.n < 0 THEN -1 ELSE 1)))
    ELSE IF IsInf(b) THEN Num(0)
    ELSE IF b.n = 0 THEN (IF a.n = 0 THEN NaN ELSE Inf(Sign(a)))
    ELSE Fin(a.n * b.d, a.d * b.n)

\* a < b, a <= b (False as soon as one side is NaN)
Lt(a, b) ==
    /\ ~IsNaN(a)
    /\ ~IsNaN(b)
    /\ IF IsInf(a) THEN a.n < 0 /\ ~(IsInf(b) /\ b.n < 0)
       ELSE IF IsInf(b) THEN b.n > 0
       ELSE a.n * b.d < b.n * a.d

Le(a, b) == ~IsNaN(a) /\ ~IsNaN(b) /\ (a = b \/ Lt(a, b))

\* Python's builtin min(a, b) / max(a, b): the first argument unless the
\* second is strictly smaller / larger
PyMin(a, b) == IF Lt(b, a) THEN b ELSE a
PyMax(a, b) == IF Lt(a, b) THEN b ELSE a

Pow10(nd) == IF nd = 0 THEN 1 ELSE IF nd = 1 THEN 10 ELSE 10000

\* round(x, nd) for nd in {0, 1, 4}: nearest multiple of 10^-nd, ties to even
Round(x, nd) ==
    IF ~IsFinite(x) THEN x
    ELSE LET m == Pow10(nd)
             f == (x.n * m) \div x.d
             r == (x.n * m) % x.d
             q == IF 2 * r < x.d THEN f
                  ELSE IF 2 * r > x.d THEN f + 1
                  ELSE IF f % 2 = 0 THEN f ELSE f + 1
         IN  Fin(q, m)

\* int(x) for a finite float: truncation toward zero
PyInt(x) ==
    IF x.n >= 0 THEN Num(x.n \div x.d) ELSE Num(-((-x.n) \div x.d))

RECURSIVE SumSeq(_)
\* Series.sum(): NaN entries are skipped
SumSeq(s) ==
    IF s = <<>> THEN Num(0)
    ELSE IF IsNaN(Head(s)) THEN SumSeq(Tail(s))
    ELSE Add(Head(s), SumSeq(Tail(s)))

----------------------------------------------------------------------------
(* safe_div *)

\* safe_div without the np.isinf(denominator) test
safe_div_no_isinf(numerator, denominator, fallback) ==
    IF denominator = Num(0) \/ IsNaN(denominator)
    THEN fallback
    ELSE LET result == TrueDiv(numerator, denominator)
         IN  IF IsInf(result) \/ IsNaN(result) THEN fallback ELSE result

safe_div(numerator, denominator, fallback) ==
    IF denominator = Num(0) \/ IsNaN(denominator) \/ IsInf(denominator)
    THEN fallback
    ELSE LET result == TrueDiv(numerator, denominator)
         IN  IF IsInf(result) \/ IsNaN(result) THEN fallback ELSE result

\* Python objects that are not floats: a str, None and an int too large for
\* a float (10**400)
Str == [k |-> "str", n |-> 0, d |-> 1]
PyNone == [k |-> "none", n |-> 0, d |-> 1]
BigInt == [k |-> "bigint", n |-> 1, d |-> 1]

IsFloat(x) == x.k \in {"fin", "nan", "inf"}

\* safe_div on arbitrary objects: the exception that escapes ("none" when
\* the call returns) and the value returned.
\*   line 14: None is pd.isna; np.isinf of a str or of an int beyond int64
\*            raises TypeError, which line 21 catches;
\*   line 16: str / x and None / x raise TypeError (caught); 10**400 / x
\*            raises OverflowError, which line 21 does not name.
safe_div_any(numerator, denominator, fallback) ==
    IF IsFloat(numerator) /\ IsFloat(denominator)
    THEN [exception |-> "none",
          returned |-> safe_div(numerator, denominator, fallback)]
    ELSE IF ~IsFloat(denominator)
    THEN [exception |-> "none", returned |-> fallback]
    ELSE IF denominator = Num(0) \/ IsNaN(denominator) \/ IsInf(denominator)
    THEN [exception |-> "none", returned |-> fallback]
    ELSE IF numerator = BigInt
    THEN [exception |-> "OverflowError", returned |-> PyNone]
    ELSE [exception |-> "none", returned |-> fallback]

----------------------------------------------------------------------------
(* The table (pandas DataFrame): columns is the set of column names, rows  *)
(* the records in index order.  A row carries a field for every column the *)
(* model knows; a field is meaningful only while its column is in columns. *)

NoBucket == "NaN"      \* the missing category pd.cut gives outside the bins

Bins == <<0, 1, 2, 3, 4, 5, 6, 7, 8, 9, 10, 15, 20, 30, 50, 100>>
Labels == <<"1", "2", "3", "4", "5", "6", "7", "8", "9", "10",
            "11-15", "16-20", "21-30", "31-50", "51-100">>

\* pd.cut(x, bins=Bins, labels=Labels): intervals are open on the left and
\* closed on the right; a value in no interval (or NaN) gets no category
Cut(x) ==
    LET hit == {i \in 1..Len(Labels) : Lt(Num(Bins[i]), x) /\ Le(x, Num(Bins[i + 1]))}
    IN  IF hit = {} THEN NoBucket ELSE Labels[CHOOSE i \in hit : TRUE]

Members(rows, b) == SelectSeq(rows, LAMBDA r : r.Position_Bucket = b)

ColCTR(rows) == [i \in 1..Len(rows) |-> rows[i].CTR]
ColVolume(rows) == [i \in 1..Len(rows) |-> rows[i].Search_Volume]
ColWeighted(rows) == [i \in 1..Len(rows) |-> rows[i].Weighted_CTR]

RECURSIVE MinSeq(_)
MinSeq(s) == IF Len(s) = 1 THEN s[1] ELSE PyMin(s[1], MinSeq(Tail(s)))
RECURSIVE MaxSeq(_)
MaxSeq(s) == IF Len(s) = 1 THEN s[1] ELSE PyMax(s[1], MaxSeq(Tail(s)))

\* the groups groupby('Position_Bucket') reports, in category order: every
\* category when observed=False, the categories with members otherwise
GroupKeys(rows, obs) ==
    SelectSeq(Labels, LAMBDA b : ~obs \/ Members(rows, b) # <<>>)

\* one row of .agg({'CTR': ['mean', ..., 'count', 'min', 'max']}).round(4);
\* an unobserved category has count 0 and NaN statistics
AggRow(rows, b) ==
    LET g == ColCTR(Members(rows, b))
    IN  IF g = <<>>
        THEN [Position_Bucket |-> b, CTR_Mean |-> NaN, Count |-> 0,
              CTR_Min |-> NaN, CTR_Max |-> NaN]
        ELSE [Position_Bucket |-> b,
              CTR_Mean |-> Round(TrueDiv(SumSeq(g), Num(Len(g))), 4),
              Count |-> Len(g),
              CTR_Min |-> Round(MinSeq(g), 4),
              CTR_Max |-> Round(MaxSeq(g), 4)]

calculate_weighted_ctr(group) ==
    safe_div(SumSeq(ColWeighted(group)), SumSeq(ColVolume(group)), Num(0))

\* groupby('Position_Bucket').apply(calculate_weighted_ctr).round(4).values
WeightedOf(rows, b) ==
    IF Members(rows, b) = <<>> THEN NaN
    ELSE Round(calculate_weighted_ctr(Members(rows, b)), 4)

None == [is_none |-> TRUE, stats |-> <<>>]

\* df['Position_Bucket'] = pd.cut(df['Current Position'], ...)
AddPositionBucket(d) ==
    [columns |-> d.columns \cup {"Position_Bucket"},
     rows |-> [i \in 1..Len(d.rows) |->
         [d.rows[i] EXCEPT !.Position_Bucket = Cut(d.rows[i].Current_Position)]]]

\* the product written over the CTR column instead of a new column
OverwriteCTR(d) ==
    [columns |-> d.columns,
     rows |-> [i \in 1..Len(d.rows) |->
         [d.rows[i] EXCEPT !.CTR = Mul(d.rows[i].CTR, d.rows[i].Search_Volume),
                           !.Weighted_CTR = Mul(d.rows[i].CTR, d.rows[i].Search_Volume)]]]

\* df['Weighted_CTR'] = df['CTR'] * df['Search Volume']
AddWeightedCTR(d) ==
    [columns |-> d.columns \cup {"Weighted_CTR"},
     rows |-> [i \in 1..Len(d.rows) |->
         [d.rows[i] EXCEPT !.Weighted_CTR = Mul(d.rows[i].CTR, d.rows[i].Search_Volume)]]]

\* ctr_stats with the CTR_Weighted column attached
CtrStats(d1, d2, obs) ==
    LET keys == GroupKeys(d1.rows, obs)
    IN  [i \in 1..Len(keys) |->
            LET a == AggRow(d1.rows, keys[i])
            IN  [Position_Bucket |-> keys[i], CTR_Mean |-> a.CTR_Mean,
                 Count |-> a.Count, CTR_Min |-> a.CTR_Min, CTR_Max |-> a.CTR_Max,
                 CTR_Weighted |-> WeightedOf(d2.rows, keys[i])]]

\* SEOAnalyzer.calculate_ctr_by_position(df): the table as the call leaves
\* it, whether the call raised, and the curve it stored (when it did not).
\*   line 44 needs 'Current Position' (KeyError before any write);
\*   line 52 needs 'CTR', line 62 'Search Volume';
\*   lines 69-71: with no row in any bucket, apply() yields a frame instead
\*   of a series and the column assignment raises ValueError.
calculate_ctr_by_position(d, obs) ==
    LET d1 == AddPositionBucket(d)
        d2 == AddWeightedCTR(d1)
    IN  IF "Current Position" \notin d.columns
        THEN [raised |-> TRUE, df |-> d, curve |-> None]
        ELSE IF "CTR" \notin d.columns \/ "Search Volume" \notin d.columns
        THEN [raised |-> TRUE, df |-> d1, curve |-> None]
        ELSE IF GroupKeys(d1.rows, TRUE) = <<>>
        THEN [raised |-> TRUE, df |-> d2, curve |-> None]
        ELSE [raised |-> FALSE, df |-> d2,
              curve |-> [is_none |-> FALSE, stats |-> CtrStats(d1, d2, obs)]]

\* default_ctr of get_ctr_for_position, in insertion order
DefaultKeys == <<1, 2, 3, 4, 5, 6, 7, 8, 9, 10, 11, 12, 13, 14, 15, 20, 30, 50, 100>>
DefaultCtr == <<Fin(315, 1000), Fin(242, 1000), Fin(185, 1000), Fin(142, 1000),
                Fin(109, 1000), Fin(84, 1000), Fin(65, 1000), Fin(50, 1000),
                Fin(39, 1000), Fin(30, 1000), Fin(23, 1000), Fin(18, 1000),
                Fin(14, 1000), Fin(11, 1000), Fin(8, 1000), Fin(3, 1000),
                Fin(1, 1000), Fin(5, 10000), Fin(1, 10000)>>

\* abs(x - position)
Dist(x, position) ==
    LET v == Sub(Num(x), position) IN IF Lt(v, Num(0)) THEN Neg(v) ELSE v

RECURSIVE ClosestFrom(_, _, _)

\* a min() that keeps the last of equally close keys
ClosestLast(i, best, position) ==
    CHOOSE k \in 1..Len(DefaultKeys) :
        \A j \in 1..Len(DefaultKeys) :
            /\ ~Lt(Dist(DefaultKeys[j], position), Dist(DefaultKeys[k], position))
            /\ Dist(DefaultKeys[j], position) = Dist(DefaultKeys[k], position) => j <= k

\* min(default_ctr.keys(), key=...): the first key whose distance no later
\* key undercuts strictly
ClosestFrom(i, best, position) ==
    IF i > Len(DefaultKeys) THEN best
    ELSE IF Lt(Dist(DefaultKeys[i], position), Dist(DefaultKeys[best], position))
         THEN ClosestFrom(i + 1, i, position)
         ELSE ClosestFrom(i + 1, best, position)

\* the if/elif chain of lines 106-135
BucketOf(position) ==
    IF Le(position, Num(1)) THEN "1"
    ELSE IF Le(position, Num(2)) THEN "2"
    ELSE IF Le(position, Num(3)) THEN "3"
    ELSE IF Le(position, Num(4)) THEN "4"
    ELSE IF Le(position, Num(5)) THEN "5"
    ELSE IF Le(position, Num(6)) THEN "6"
    ELSE IF Le(position, Num(7)) THEN "7"
    ELSE IF Le(position, Num(8)) THEN "8"
    ELSE IF Le(position, Num(9)) THEN "9"
    ELSE IF Le(position, Num(10)) THEN "10"
    ELSE IF Le(position, Num(15)) THEN "11-15"
    ELSE IF Le(position, Num(20)) THEN "16-20"
    ELSE IF Le(position, Num(30)) THEN "21-30"
    ELSE IF Le(position, Num(50)) THEN "31-50"
    ELSE "51-100"

\* SEOAnalyzer.get_ctr_for_position on an analyzer whose ctr_by_position is
\* curve
get_ctr_for_position(curve, position) ==
    IF curve.is_none
    THEN DefaultCtr[ClosestFrom(2, 1, position)]
    ELSE LET ctr_row == SelectSeq(curve.stats,
                            LAMBDA s : s.Position_Bucket = BucketOf(position))
         IN  IF ctr_row # <<>> THEN ctr_row[1].CTR_Mean ELSE Fin(1, 100)

\* a filter that keeps position 1
opportunity_filter_from_1(d, min_volume, max_position) ==
    SelectSeq(d.rows, LAMBDA r : /\ Le(Num(min_volume), r.Search_Volume)
                                 /\ Le(r.Current_Position, Num(max_position))
                                 /\ Le(Num(1), r.Current_Position))

\* lines 162-166 of identify_opportunities: the rows kept by the filter
opportunity_filter(d, min_volume, max_position) ==
    SelectSeq(d.rows, LAMBDA r : /\ Le(Num(min_volume), r.Search_Volume)
                                 /\ Le(r.Current_Position, Num(max_position))
                                 /\ Lt(Num(1), r.Current_Position))

\* identify_opportunities without the early return of lines 168-170
opportunities_raise_eager(d, kept) ==
    {"Search Volume", "Current Position", "Keyword Difficulty", "Keyword"}
        \ d.columns # {}

\* whether identify_opportunities raises (KeyError, lines 163-165, 176, 201):
\* the filter reads two columns; the rest are read only when a row is kept
opportunities_raise(d, kept) ==
    \/ "Search Volume" \notin d.columns
    \/ "Current Position" \notin d.columns
    \/ /\ kept # <<>>
       /\ ("Keyword Difficulty" \notin d.columns \/ "Keyword" \notin d.columns)

\* lines 173-194: the columns computed for one kept row
OpportunityRow(r, curve) ==
    LET score == Mul(Mul(r.Search_Volume, safe_div(Num(1), r.Current_Position, Num(0))),
                     safe_div(Sub(Num(100), r.Keyword_Difficulty), Num(100), Num(0)))
        current_ctr == get_ctr_for_position(curve, r.Current_Position)
        target_ctr == get_ctr_for_position(curve, Num(3))
        current_clicks_est == Mul(r.Search_Volume, current_ctr)
        potential_clicks == Mul(r.Search_Volume, target_ctr)
    IN  [Keyword |-> r.Keyword, Current_Position |-> r.Current_Position,
         Search_Volume |-> r.Search_Volume, Keyword_Difficulty |-> r.Keyword_Difficulty,
         Opportunity_Score |-> score, Current_Clicks_Est |-> current_clicks_est,
         Potential_Clicks |-> potential_clicks,
         Click_Increase |-> Sub(potential_clicks, current_clicks_est)]

\* the orders of rows in which the score never decreases
sort_values_ascending(rows) ==
    LET n == Len(rows)
        perms == {f \in [1..n -> 1..n] : \A i, j \in 1..n : i # j => f[i] # f[j]}
        sorted == {f \in perms : \A i \in 1..(n - 1) :
                      Le(rows[f[i]].Opportunity_Score, rows[f[i + 1]].Opportunity_Score)}
    IN  {[i \in 1..n |-> rows[f[i]]] : f \in sorted}

\* sort_values('Opportunity_Score', ascending=False), lines 197-199: the
\* orders it can produce; the default quicksort leaves the order of equal
\* scores open
sort_values_descending(rows) ==
    LET n == Len(rows)
        perms == {f \in [1..n -> 1..n] : \A i, j \in 1..n : i # j => f[i] # f[j]}
        sorted == {f \in perms : \A i \in 1..(n - 1) :
                      Le(rows[f[i + 1]].Opportunity_Score, rows[f[i]].Opportunity_Score)}
    IN  {[i \in 1..n |-> rows[f[i]]] : f \in sorted}

\* SEOAnalyzer.identify_opportunities(df, min_volume, max_position) on an
\* analyzer whose ctr_by_position is curve: whether it raises, and the tables
\* it can return
identify_opportunities(d, min_volume, max_position, curve) ==
    LET kept == IF {"Search Volume", "Current Position"} \subseteq d.columns
                THEN opportunity_filter(d, min_volume, max_position)
                ELSE <<>>
    IN  IF opportunities_raise(d, kept) THEN [raised |-> TRUE, returned |-> {<<>>}]
        ELSE IF kept = <<>> THEN [raised |-> FALSE, returned |-> {<<>>}]
        ELSE [raised |-> FALSE,
              returned |-> sort_values_descending(
                  [i \in 1..Len(kept) |-> OpportunityRow(kept[i], curve)])]

----------------------------------------------------------------------------
(* DataLoader *)

\* lines 234-235 of merge_data: CTR is computed when the column is absent
GscWithCtr(gsc_df) ==
    IF "CTR" \in gsc_df.columns THEN gsc_df.rows
    ELSE [i \in 1..Len(gsc_df.rows) |->
            [gsc_df.rows[i] EXCEPT
                !.CTR = safe_div(gsc_df.rows[i].Clicks, gsc_df.rows[i].Impressions,
                                 Num(0))]]

\* one joined row, with 'Potential Traffic' (lines 246-249)
JoinedRow(g, s) ==
    [Keyword |-> g.Query, Clicks |-> g.Clicks, Impressions |-> g.Impressions,
     CTR |-> g.CTR, Current_Position |-> s.Position, Search_Volume |-> s.Search_Volume,
     URL |-> s.URL, Potential_Traffic |-> Mul(s.Search_Volume, g.CTR)]

RECURSIVE InnerMerge(_, _, _)
\* pd.merge(gsc_df, semrush_df, on='Keyword', how='inner'), lines 238-243:
\* for each left row from index i on, its matching right rows in right order
InnerMerge(left, right, i) ==
    IF i > Len(left) THEN <<>>
    ELSE LET hits == SelectSeq(right, LAMBDA s : s.Keyword = left[i].Query)
         IN  [j \in 1..Len(hits) |-> JoinedRow(left[i], hits[j])]
             \o InnerMerge(left, right, i + 1)

\* the order of sort_values: ascending, missing values last
PositionBefore(a, b) == IsNaN(b) \/ (~IsNaN(a) /\ Le(a, b))

\* sort_values('Current Position') placing the largest values first
sort_by_position_descending(rows) ==
    LET n == Len(rows)
        perms == {f \in [1..n -> 1..n] : \A i, j \in 1..n : i # j => f[i] # f[j]}
        sorted == {f \in perms : \A i \in 1..(n - 1) :
                      PositionBefore(rows[f[i + 1]].Current_Position,
                                     rows[f[i]].Current_Position)}
    IN  {[i \in 1..n |-> rows[f[i]]] : f \in sorted}

\* merged_df.sort_values('Current Position'), line 252: the orders it can
\* produce; the default quicksort leaves the order of equal positions open
sort_by_position(rows) ==
    LET n == Len(rows)
        perms == {f \in [1..n -> 1..n] : \A i, j \in 1..n : i # j => f[i] # f[j]}
        sorted == {f \in perms : \A i \in 1..(n - 1) :
                      PositionBefore(rows[f[i]].Current_Position,
                                     rows[f[i + 1]].Current_Position)}
    IN  {[i \in 1..n |-> rows[f[i]]] : f \in sorted}

\* drop_duplicates('Keyword', keep='first'), line 253
drop_duplicates(rows) ==
    LET keep == {i \in 1..Len(rows) :
                    \A j \in 1..(i - 1) : rows[j].Keyword # rows[i].Keyword}
        RECURSIVE Take(_)
        Take(i) == IF i > Len(rows) THEN <<>>
                   ELSE IF i \in keep THEN <<rows[i]>> \o Take(i + 1)
                   ELSE Take(i + 1)
    IN  Take(1)

\* DataLoader.merge_data(gsc_df, semrush_df): the tables it can return
merge_data(gsc_df, semrush_df) ==
    LET joined == InnerMerge(GscWithCtr(gsc_df), semrush_df.rows, 1)
    IN  {drop_duplicates(rows) : rows \in sort_by_position(joined)}

----------------------------------------------------------------------------
(* SEOForecaster *)

\* the table with the 90- and 180-day fractions exchanged
improvement_scaling_swapped(days) ==
    IF days = 90 THEN Fin(65, 100)
    ELSE IF days = 180 THEN Fin(30, 100)
    ELSE IF days = 360 THEN Num(1)
    ELSE TrueDiv(Num(days), Num(360))

\* self.improvement_scaling.get(days, days / 360)
improvement_scaling(days) ==
    IF days = 90 THEN Fin(30, 100)
    ELSE IF days = 180 THEN Fin(65, 100)
    ELSE IF days = 360 THEN Num(1)
    ELSE TrueDiv(Num(days), Num(360))

\* projection that damps the improvement before capping it by the headroom
projected_pos_damp_first(current_pos, improvement_factor) ==
    LET damping == IF Le(current_pos, Num(3)) THEN Fin(4, 10)
                   ELSE IF Le(current_pos, Num(10)) THEN Fin(7, 10)
                   ELSE Num(1)
        max_improvement == PyMin(Mul(improvement_factor, damping),
                                 Sub(current_pos, Num(1)))
    IN  PyMax(Num(1), Sub(current_pos, max_improvement))

\* projection that adds the improvement to the position
projected_pos_added(current_pos, improvement_factor) ==
    LET capped == PyMin(improvement_factor, Sub(current_pos, Num(1)))
    IN  PyMax(Num(1), Add(current_pos, capped))

\* projection without the final max(1, ...)
projected_pos_nofloor(current_pos, improvement_factor) ==
    LET capped == PyMin(improvement_factor, Sub(current_pos, Num(1)))
        max_improvement ==
            IF Le(current_pos, Num(3)) THEN Mul(capped, Fin(4, 10))
            ELSE IF Le(current_pos, Num(10)) THEN Mul(capped, Fin(7, 10))
            ELSE Mul(capped, Num(1))
    IN  Sub(current_pos, max_improvement)

\* lines 107-118 of _forecast_keywords
projected_pos(current_pos, improvement_factor) ==
    LET capped == PyMin(improvement_factor, Sub(current_pos, Num(1)))
        max_improvement ==
            IF Le(current_pos, Num(3)) THEN Mul(capped, Fin(4, 10))
            ELSE IF Le(current_pos, Num(10)) THEN Mul(capped, Fin(7, 10))
            ELSE Mul(capped, Num(1))
    IN  PyMax(Num(1), Sub(current_pos, max_improvement))

\* one iteration of the loop of _forecast_keywords: the appended dict
ForecastRow(row, improvement_factor, curve) ==
    LET current_pos == row.Current_Position
        search_volume == row.Search_Volume
        ppos == projected_pos(current_pos, improvement_factor)
        current_ctr == get_ctr_for_position(curve, current_pos)
        projected_ctr == get_ctr_for_position(curve, ppos)
        current_clicks == Mul(search_volume, current_ctr)
        projected_clicks == Mul(search_volume, projected_ctr)
        click_increase == Sub(projected_clicks, current_clicks)
        improvement_pct ==
            Mul(safe_div(click_increase, PyMax(current_clicks, Num(1)), Num(0)),
                Num(100))
    IN  [Keyword |-> row.Keyword,
         Current_Position |-> current_pos,
         Projected_Position |-> Round(ppos, 1),
         Search_Volume |-> search_volume,
         Current_CTR |-> Round(current_ctr, 4),
         Projected_CTR |-> Round(projected_ctr, 4),
         Current_Clicks |-> Round(current_clicks, 0),
         Projected_Clicks |-> Round(projected_clicks, 0),
         Click_Increase |-> Round(click_increase, 0),
         Click_Improvement_pct |-> Round(improvement_pct, 1)]

\* _forecast_keywords(df, improvement_factor, analyzer)
forecast_keywords(d, improvement_factor, curve) ==
    [i \in 1..Len(d.rows) |-> ForecastRow(d.rows[i], improvement_factor, curve)]

\* aggregates whose value_increase_pct is 0.95 times the rounded percentage
aggregate_metrics_from_rounded(kf) ==
    LET total_current == SumSeq([i \in 1..Len(kf) |-> kf[i].Current_Clicks])
        total_projected == SumSeq([i \in 1..Len(kf) |-> kf[i].Projected_Clicks])
        clicks_increase_pct ==
            Mul(safe_div(Sub(total_projected, total_current),
                         PyMax(total_current, Num(1)), Num(0)), Num(100))
        current_top_10 ==
            Len(SelectSeq(kf, LAMBDA r : Le(r.Current_Position, Num(10))))
        projected_top_10 ==
            Len(SelectSeq(kf, LAMBDA r : Le(r.Projected_Position, Num(10))))
    IN  [total_current_clicks |-> PyInt(total_current),
         total_projected_clicks |-> PyInt(total_projected),
         clicks_increase_pct |-> Round(clicks_increase_pct, 1),
         keywords_top_10 |-> projected_top_10,
         top10_increase |-> projected_top_10 - current_top_10,
         value_increase_pct |-> Mul(Round(clicks_increase_pct, 1), Fin(95, 100))]

\* _calculate_aggregate_metrics(keyword_forecasts)
calculate_aggregate_metrics(kf) ==
    LET total_current == SumSeq([i \in 1..Len(kf) |-> kf[i].Current_Clicks])
        total_projected == SumSeq([i \in 1..Len(kf) |-> kf[i].Projected_Clicks])
        clicks_increase_pct ==
            Mul(safe_div(Sub(total_projected, total_current),
                         PyMax(total_current, Num(1)), Num(0)), Num(100))
        current_top_10 ==
            Len(SelectSeq(kf, LAMBDA r : Le(r.Current_Position, Num(10))))
        projected_top_10 ==
            Len(SelectSeq(kf, LAMBDA r : Le(r.Projected_Position, Num(10))))
    IN  [total_current_clicks |-> PyInt(total_current),
         total_projected_clicks |-> PyInt(total_projected),
         clicks_increase_pct |-> Round(clicks_increase_pct, 1),
         keywords_top_10 |-> projected_top_10,
         top10_increase |-> projected_top_10 - current_top_10,
         value_increase_pct |-> Round(Mul(clicks_increase_pct, Fin(95, 100)), 1)]

\* cpc_mapping scanned from the lowest threshold up
TierCpcAscending(volume) ==
    IF Le(Num(0), volume) THEN Fin(5, 10)
    ELSE IF Le(Num(100), volume) THEN Fin(12, 10)
    ELSE IF Le(Num(1000), volume) THEN Fin(25, 10)
    ELSE IF Le(Num(10000), volume) THEN Num(5)
    ELSE IF Le(Num(50000), volume) THEN Num(8)
    ELSE Fin(5, 10)

\* cpc_mapping scanned from the highest threshold down
TierCpc(volume) ==
    IF Le(Num(50000), volume) THEN Num(8)
    ELSE IF Le(Num(10000), volume) THEN Num(5)
    ELSE IF Le(Num(1000), volume) THEN Fin(25, 10)
    ELSE IF Le(Num(100), volume) THEN Fin(12, 10)
    ELSE IF Le(Num(0), volume) THEN Fin(5, 10)
    ELSE Fin(5, 10)

\* original_df.set_index('Keyword')['CPC'].to_dict().get(keyword, 0.5):
\* the last row of that keyword wins
CpcOf(rows, keyword) ==
    LET hit == {i \in 1..Len(rows) : rows[i].Keyword = keyword}
    IN  IF hit = {} THEN Fin(5, 10)
        ELSE rows[CHOOSE i \in hit : \A j \in hit : j <= i].CPC

Sanitized(x, dflt) == IF IsNaN(x) \/ IsInf(x) THEN dflt ELSE x

\* None passed where a table is expected
NoneTable == [columns |-> {}, rows |-> <<>>, none |-> TRUE]
IsNoneTable(t) == "none" \in DOMAIN t

\* the columns of the table built by _forecast_keywords (lines 131-142)
ForecastColumns ==
    {"Keyword", "Current Position", "Projected Position", "Search Volume",
     "Current CTR", "Projected CTR", "Current Clicks", "Projected Clicks",
     "Click Increase", "Click Improvement %"}

\* the body of the try block of _calculate_traffic_value (lines 181-241): the
\* exception it ends with ("none" when line 241 is reached) and its value
traffic_value_body(kf, original_df) ==
    LET has_real_cpc ==
            /\ ~IsNoneTable(original_df)
            /\ "CPC" \in original_df.columns
            /\ \E i \in 1..Len(original_df.rows) : ~IsNaN(original_df.rows[i].CPC)
        cpc(r) == CpcOf(original_df.rows, r.Keyword)
        value(r) ==
            IF has_real_cpc
            THEN Mul(Sanitized(r.Projected_Clicks, Num(0)),
                     Sanitized(cpc(r), Fin(5, 10)))
            ELSE Mul(Sanitized(r.Projected_Clicks, Num(0)),
                     TierCpc(Sanitized(r.Search_Volume, Num(0))))
        total_value == SumSeq([i \in 1..Len(kf.rows) |-> value(kf.rows[i])])
        exception ==
            IF has_real_cpc /\ "Keyword" \notin original_df.columns
            THEN "KeyError"                                     \* line 190
            ELSE IF IsNoneTable(kf) THEN "AttributeError"       \* lines 192, 217
            ELSE IF kf.rows = <<>> THEN "none"
            ELSE IF has_real_cpc /\ "Keyword" \notin kf.columns
            THEN "KeyError"                                     \* line 193
            ELSE IF ~has_real_cpc /\ "Search Volume" \notin kf.columns
            THEN "KeyError"                                     \* line 218
            ELSE IF "Projected Clicks" \notin kf.columns
            THEN "KeyError"                                     \* lines 194, 219
            ELSE IF has_real_cpc /\ \E i \in 1..Len(kf.rows) : ~IsFloat(cpc(kf.rows[i]))
            THEN "TypeError"                                    \* line 200
            ELSE "none"
    IN  IF exception = "none"
        THEN [exception |-> "none", failed |-> FALSE,
              returned |-> Round(Sanitized(total_value, Num(0)), 0)]
        ELSE [exception |-> exception, failed |-> TRUE, returned |-> PyNone]

\* _calculate_traffic_value without its try/except
traffic_value_unguarded(kf, original_df) == traffic_value_body(kf, original_df)

\* _calculate_traffic_value(keyword_forecasts, original_df) as a call: the
\* exception that leaves it, whether the except branch ran, the value returned
traffic_value_call(kf, original_df) ==
    LET body == traffic_value_body(kf, original_df)
    IN  IF body.exception = "none" THEN body
        ELSE [exception |-> "none", failed |-> TRUE, returned |-> Num(0)]

\* _calculate_traffic_value(keyword_forecasts, original_df)
calculate_traffic_value(kf, original_df) ==
    traffic_value_call([columns |-> ForecastColumns, rows |-> kf], original_df).returned

\* what a call that raised leaves behind: no dict is returned
NoResult ==
    [keyword_forecasts |-> <<>>, total_projected_clicks |-> NaN,
     total_current_clicks |-> NaN, clicks_increase_pct |-> NaN,
     traffic_value |-> NaN, keywords_top_10 |-> 0, top10_increase |-> 0,
     value_increase_pct |-> NaN]

Raised(d, ts, ai) ==
    [raised |-> TRUE, df |-> d, time_scaling |-> ts, actual_improvement |-> ai,
     projected |-> <<>>, result |-> NoResult]

\* lines 56-84 of forecast_performance: the forecast of table d on the
\* curve held by the call's analyzer
forecast_from_curve(d, days, avg, curve) ==
    LET time_scaling == improvement_scaling(days)
        actual_improvement == Mul(Num(avg), time_scaling)
        kf == forecast_keywords(d, actual_improvement, curve)
        tm == calculate_aggregate_metrics(kf)
    IN  IF "Keyword" \notin d.columns
        THEN Raised(d, time_scaling, actual_improvement)
        ELSE [raised |-> FALSE, df |-> d,
              time_scaling |-> time_scaling,
              actual_improvement |-> actual_improvement,
              projected |-> [i \in 1..Len(d.rows) |->
                  projected_pos(d.rows[i].Current_Position, actual_improvement)],
              result |->
                [keyword_forecasts |-> kf,
                 total_projected_clicks |-> tm.total_projected_clicks,
                 total_current_clicks |-> tm.total_current_clicks,
                 clicks_increase_pct |-> tm.clicks_increase_pct,
                 traffic_value |-> calculate_traffic_value(kf, d),
                 keywords_top_10 |-> tm.keywords_top_10,
                 top10_increase |-> tm.top10_increase,
                 value_increase_pct |-> tm.value_increase_pct]]

\* SEOForecaster.forecast_performance(df, days, avg_improvement): the table
\* as the call leaves it, the locals time_scaling / actual_improvement and
\* the unrounded projected positions, and the returned dict
forecast_performance(d, days, avg, obs) ==
    LET built == calculate_ctr_by_position(d, obs)
    IN  IF built.raised THEN Raised(built.df, NaN, NaN)
        ELSE forecast_from_curve(built.df, days, avg, built.curve)

\* a call that reads the curve of another call in flight, as it would with
\* an analyzer kept on the forecaster
analyzer_shared(rq, r) ==
    IF \E q \in DOMAIN rq : q # r /\ rq[q].phase = "built"
    THEN rq[CHOOSE q \in DOMAIN rq : q # r /\ rq[q].phase = "built"].analyzer
    ELSE rq[r].analyzer

\* line 52: the analyzer is a local of the call, so call r reads the curve
\* it built itself
analyzer_of(rq, r) == rq[r].analyzer

\* what calculate_roi_potential leaves behind when it raises
NoRoiResult ==
    [investment |-> NaN, traffic_value_annual |-> NaN, clicks_increase_annual |-> NaN,
     roi_percentage |-> NaN, payback_months |-> NaN, monthly_value |-> NaN]

\* ROI figures whose denominators are not floored at 1
roi_figures_unguarded(traffic_value, investment) ==
    LET roi_ == Mul(safe_div(Sub(traffic_value, investment), investment, Num(0)),
                    Num(100))
        monthly_value == safe_div(traffic_value, Num(12), Num(0))
        payback_period == safe_div(investment, monthly_value, Num(0))
    IN  [roi_percentage |-> Round(roi_, 1),
         payback_months |-> Round(payback_period, 1),
         monthly_value |-> Round(monthly_value, 0)]

\* lines 310-320 of calculate_roi_potential
roi_figures(traffic_value, investment) ==
    LET roi_ == Mul(safe_div(Sub(traffic_value, investment),
                             PyMax(investment, Num(1)), Num(0)), Num(100))
        monthly_value == safe_div(traffic_value, Num(12), Num(0))
        payback_period == safe_div(investment, PyMax(monthly_value, Num(1)), Num(0))
    IN  [roi_percentage |-> Round(roi_, 1),
         payback_months |-> Round(payback_period, 1),
         monthly_value |-> Round(monthly_value, 0)]

\* calculate_roi_potential(df, investment, improvement_rate), given the
\* outcome of its 360-day forecast (line 301): an exception of the forecast
\* is logged and raised again
calculate_roi_potential(forecast, investment) ==
    IF forecast.raised
    THEN [raised |-> TRUE, df |-> forecast.df, result |-> NoRoiResult]
    ELSE [raised |-> FALSE, df |-> forecast.df,
          result |->
            [investment |-> investment,
             traffic_value_annual |-> forecast.result.traffic_value,
             clicks_increase_annual |->
                 Sub(forecast.result.total_projected_clicks,
                     forecast.result.total_current_clicks),
             roi_percentage |->
                 roi_figures(forecast.result.traffic_value, investment).roi_percentage,
             payback_months |->
                 roi_figures(forecast.result.traffic_value, investment).payback_months,
             monthly_value |->
                 roi_figures(forecast.result.traffic_value, investment).monthly_value]]

RECURSIVE timeline_forecasts(_, _, _, _)
\* the loop of create_timeline_forecast from month `month` on (lines 282-284):
\* the outcomes of the forecast_performance calls, each made on the table as
\* the call before left it; an exception ends the loop
timeline_forecasts(d, month, improvement_rate, obs) ==
    IF month > 12 THEN <<>>
    ELSE CHOOSE fs \in
            {IF f.raised THEN <<f>>
             ELSE <<f>> \o timeline_forecasts(f.df, month + 1, improvement_rate, obs) :
                f \in {forecast_performance(d, month * 30, improvement_rate, obs)}} : TRUE

\* the dict appended for one month (lines 286-293)
timeline_row(month, forecast) ==
    [Month |-> month,
     Days |-> month * 30,
     Projected_Clicks |-> forecast.result.total_projected_clicks,
     Current_Clicks |-> forecast.result.total_current_clicks,
     Traffic_Value |-> forecast.result.traffic_value,
     Keywords_Top_10 |-> forecast.result.keywords_top_10]

\* create_timeline_forecast(df, improvement_rate), given the outcomes of its
\* forecasts: the table as the call leaves it, whether it raised, the rows of
\* the returned frame and the scaled improvement each month applied
create_timeline_forecast(forecasts) ==
    LET n == Len(forecasts)
    IN  IF forecasts[n].raised
        THEN [raised |-> TRUE, df |-> forecasts[n].df, rows |-> <<>>, applied |-> <<>>]
        ELSE [raised |-> FALSE, df |-> forecasts[n].df,
              rows |-> [month \in 1..n |-> timeline_row(month, forecasts[month])],
              applied |-> [month \in 1..n |-> forecasts[month].actual_improvement]]

----------------------------------------------------------------------------
(* Inputs *)

MaxRows == 2       \* rows of a table drawn from Pool
MaxCalls == 3      \* forecast_performance calls of one session

Row(kw, pos, vol, ctr, cpc) ==
    [Keyword |-> kw, Current_Position |-> pos, Search_Volume |-> Num(vol),
     CTR |-> ctr, CPC |-> cpc, Position_Bucket |-> NoBucket, Weighted_CTR |-> NaN]

\* candidate records: both damped tiers and the tier boundary at 10, a zero
\* CTR, a zero volume, observed CTRs that do not decrease with position, and
\* positions outside [1, 100]
Pool ==
    <<Row("b", Fin(25, 10), 500, Num(0), NaN),
      Row("c", Fin(85, 10), 8100, Fin(5, 100), Fin(15, 10)),
      Row("d", Num(10), 0, Fin(3, 100), Num(0)),
      Row("e", Fin(123, 10), 5400, Fin(1, 100), Inf(1)),
      Row("f", Fin(182, 10), 1600, Fin(4, 100), Num(1)),
      Row("g", Num(120), 100, Fin(1, 1000), Num(3)),
      Row("h", Fin(5, 10), 100, Fin(50, 100), NaN)>>

BaseColumns == {"Keyword", "Current Position", "Search Volume", "CTR"}

RECURSIVE Pick(_, _)
\* the rows of Pool whose index is in S, in Pool order, from index i on
Pick(S, i) ==
    IF i > Len(Pool) THEN <<>>
    ELSE IF i \in S THEN <<Pool[i]>> \o Pick(S, i + 1) ELSE Pick(S, i + 1)

\* the worked scenario (spec section 8); the observed CTR of the keyword at
\* 8.5 is not given there and ranges over ScenarioCtr
ScenarioCtr == {Fin(5, 1000), Fin(5, 100)}
Scenario(c) ==
    [columns |-> BaseColumns,
     rows |-> <<Row("s1", Fin(85, 10), 8100, c, NaN),
                Row("s2", Fin(123, 10), 5400, Fin(2, 100), NaN),
                Row("s3", Fin(157, 10), 2900, Fin(1, 100), NaN),
                Row("s4", Fin(182, 10), 1600, Fin(8, 1000), NaN),
                Row("s5", Fin(221, 10), 1300, Fin(5, 1000), NaN)>>]

\* tables with a CPC column, with text in a CPC cell, without a required
\* column, and with a missing position
Special ==
    {[columns |-> BaseColumns \cup {"CPC"}, rows |-> Pick({1, 2, 4}, 1)],
     [columns |-> BaseColumns \cup {"CPC"},
      rows |-> <<Row("j", Fin(85, 10), 8100, Fin(5, 100), Str)>>],
     [columns |-> BaseColumns \ {"Search Volume"}, rows |-> Pick({2}, 1)],
     [columns |-> BaseColumns,
      rows |-> <<Row("i", NaN, 50000, Fin(2, 100), NaN)>> \o Pick({2}, 1)]}

Datasets ==
    {[columns |-> BaseColumns, rows |-> Pick(S, 1)] :
        S \in {T \in SUBSET (1..Len(Pool)) : Cardinality(T) <= MaxRows}}
    \cup {Scenario(c) : c \in ScenarioCtr}
    \cup Special

Days == {90, 100, 180, 360}
Improvements == {-5, 5, 10}

\* positions looked up on the session's analyzer
Probes == {Num(1), Fin(25, 10), Fin(325, 100), Fin(85, 10), Num(10), Num(12), Fin(175, 10),
           Num(60), Num(150)}

\* operands of safe_div
Operands == {Num(0), Num(1), Num(-3), Fin(1, 2), Num(8100), NaN, Inf(1), Inf(-1)}
Fallbacks == {Num(0), Num(-1)}

NoLookup == [called |-> FALSE, on_default |-> TRUE, position |-> NaN, ctr |-> NaN]
NoSafeDiv == [called |-> FALSE, numerator |-> NaN, denominator |-> NaN,
              fallback |-> NaN, returned |-> NaN]

\* operands of safe_div of any type
AnyOperands == {Num(0), Num(3), NaN, Inf(1), Str, PyNone, BigInt}
NoSafeDivAny == [called |-> FALSE, numerator |-> NaN, denominator |-> NaN,
                 fallback |-> NaN, exception |-> "none", returned |-> NaN]
NoTable == [columns |-> {}, rows |-> <<>>]
NoTraffic == [called |-> FALSE, kf |-> NoTable, original_df |-> NoTable,
              exception |-> "none", failed |-> FALSE, returned |-> NaN]

\* rows of a per-keyword forecast table handed to _calculate_traffic_value:
\* a volume in every CPC tier, on a tier boundary and missing
KfRows ==
    {[Keyword |-> kw, Search_Volume |-> vol, Projected_Clicks |-> clicks] :
        kw \in {"b", "c", "z"},
        vol \in {Num(50), Num(100), Num(1000), Num(9999), Num(10000), Num(50000), NaN},
        clicks \in {Num(81), Num(3), NaN}}

\* forecast tables: one row, two rows, no row, a missing column, and None
KfTables ==
    {[columns |-> ForecastColumns, rows |-> <<r>>] : r \in KfRows}
    \cup {[columns |-> ForecastColumns, rows |-> <<>>],
          [columns |-> ForecastColumns,
           rows |-> <<[Keyword |-> "c", Search_Volume |-> Num(1000),
                       Projected_Clicks |-> Num(81)],
                      [Keyword |-> "b", Search_Volume |-> Num(50000),
                       Projected_Clicks |-> Inf(1)],
                      [Keyword |-> "z", Search_Volume |-> Num(-5),
                       Projected_Clicks |-> Num(7)]>>],
          [columns |-> ForecastColumns \ {"Projected Clicks"},
           rows |-> <<[Keyword |-> "c", Search_Volume |-> Num(1000),
                       Projected_Clicks |-> NaN]>>],
          [columns |-> ForecastColumns \ {"Search Volume"},
           rows |-> <<[Keyword |-> "c", Search_Volume |-> NaN,
                       Projected_Clicks |-> Num(81)]>>],
          NoneTable}

CpcRow(kw, cpc) == [Keyword |-> kw, CPC |-> cpc]

\* original tables: None, no CPC column, a CPC column of NaN only, real CPCs
\* (NaN, infinite, a keyword listed twice), no Keyword column, a CPC cell
\* holding text
OrigTables ==
    {NoneTable,
     [columns |-> {"Keyword"}, rows |-> <<CpcRow("c", NaN)>>],
     [columns |-> {"Keyword", "CPC"}, rows |-> <<CpcRow("b", NaN), CpcRow("c", NaN)>>],
     [columns |-> {"Keyword", "CPC"}, rows |-> <<>>],
     [columns |-> {"Keyword", "CPC"},
      rows |-> <<CpcRow("b", Inf(1)), CpcRow("c", Fin(15, 10)),
                 CpcRow("d", NaN), CpcRow("c", Fin(25, 10))>>],
     [columns |-> {"Keyword", "CPC"},
      rows |-> <<CpcRow("b", NaN), CpcRow("c", Fin(15, 10))>>],
     [columns |-> {"CPC"}, rows |-> <<CpcRow("c", Fin(15, 10))>>],
     [columns |-> {"Keyword", "CPC"},
      rows |-> <<CpcRow("b", Num(2)), CpcRow("c", Str)>>]}
\* investments: none, a fraction below the floor of 1, ordinary, negative,
\* missing
Investments == {Num(0), Fin(1, 2), Num(1000), Num(-5), NaN}
NoRoi == [called |-> FALSE, table |-> NoTable, investment |-> NaN,
          improvement_rate |-> 0, raised |-> FALSE, result |-> NoRoiResult]
NoOpportunities == [called |-> FALSE, min_volume |-> 0, max_position |-> 0,
                    raised |-> FALSE, returned |-> <<>>]

\* thresholds of the opportunity filter: the defaults (100, 30) and others
MinVolumes == {100, 1000}
MaxPositions == {10, 30}

OppColumns == BaseColumns \cup {"Keyword Difficulty"}

\* a record of a table that has the 'Keyword Difficulty' column
OppRow(kw, pos, vol, kd) ==
    [Keyword |-> kw, Current_Position |-> pos, Search_Volume |-> Num(vol),
     CTR |-> Fin(2, 100), CPC |-> NaN, Position_Bucket |-> NoBucket,
     Weighted_CTR |-> NaN, Keyword_Difficulty |-> kd]

\* position 1 with a large volume, equal scores (125), the position and
\* volume thresholds exactly and beyond, a missing difficulty, difficulty
\* 100, a missing position
OppPool ==
    <<OppRow("p1", Num(1), 50000, Num(10)),
      OppRow("p2", Num(4), 1000, Num(50)),
      OppRow("p3", Num(8), 2000, Num(50)),
      OppRow("p4", Num(30), 100, Num(0)),
      OppRow("p5", Num(45), 9000, Num(20)),
      OppRow("p6", Num(12), 50, Num(30)),
      OppRow("p7", Num(5), 6000, NaN),
      OppRow("p8", NaN, 3000, Num(40)),
      OppRow("p9", Num(2), 400, Num(100))>>

RECURSIVE PickOpp(_, _)
\* the rows of OppPool whose index is in S, in pool order, from index i on
PickOpp(S, i) ==
    IF i > Len(OppPool) THEN <<>>
    ELSE IF i \in S THEN <<OppPool[i]>> \o PickOpp(S, i + 1) ELSE PickOpp(S, i + 1)

\* tables handed to identify_opportunities: up to MaxRows pool records, the
\* whole pool, and tables without a column the method reads
OppTables ==
    {[columns |-> OppColumns, rows |-> PickOpp(S, 1)] :
        S \in {T \in SUBSET (1..Len(OppPool)) : Cardinality(T) <= MaxRows}}
    \cup {[columns |-> OppColumns, rows |-> OppPool],
          [columns |-> BaseColumns, rows |-> PickOpp({1, 5}, 1)],
          [columns |-> BaseColumns, rows |-> PickOpp({1, 2}, 1)],
          [columns |-> OppColumns \ {"Search Volume"}, rows |-> PickOpp({2}, 1)],
          [columns |-> OppColumns \ {"Current Position"}, rows |-> <<>>]}

\* rows of a Search Console export and of a SEMrush export
GscRow(q, clicks, impressions, ctr) ==
    [Query |-> q, Clicks |-> Num(clicks), Impressions |-> Num(impressions), CTR |-> ctr]
SemRow(kw, pos, vol, url) ==
    [Keyword |-> kw, Position |-> pos, Search_Volume |-> Num(vol), URL |-> url]

GscColumns == {"Query", "Clicks", "Impressions", "CTR", "Avg. Pos"}
SemColumns == {"Keyword", "Search Volume", "Keyword Difficulty", "Position", "URL"}

\* Search Console tables: a query listed once and twice, queries in both
\* orders, no query, and a table whose CTR column is absent
GscTables ==
    {[columns |-> GscColumns, rows |-> <<GscRow("a", 10, 100, Fin(1, 10))>>],
     [columns |-> GscColumns,
      rows |-> <<GscRow("a", 10, 100, Fin(1, 10)), GscRow("b", 3, 60, Fin(5, 100))>>],
     [columns |-> GscColumns,
      rows |-> <<GscRow("b", 3, 60, Fin(5, 100)), GscRow("a", 10, 100, Fin(1, 10))>>],
     [columns |-> GscColumns,
      rows |-> <<GscRow("a", 10, 100, Fin(1, 10)), GscRow("a", 4, 0, Num(0))>>],
     [columns |-> GscColumns \ {"CTR"},
      rows |-> <<GscRow("a", 10, 100, NaN), GscRow("c", 4, 0, NaN)>>],
     [columns |-> GscColumns, rows |-> <<>>]}

\* SEMrush rows: a keyword ranking with several URLs, two of them at the
\* same position, one without a position; other keywords
SemPool ==
    <<SemRow("a", Num(5), 1000, "u1"), SemRow("a", Num(2), 900, "u2"),
      SemRow("a", Num(2), 800, "u3"), SemRow("a", NaN, 700, "u4"),
      SemRow("b", Num(7), 600, "u5"), SemRow("c", Num(1), 500, "u6")>>

\* SEMrush tables: every sequence of at most two pool rows
SemTables ==
    {[columns |-> SemColumns, rows |-> <<>>]}
    \cup {[columns |-> SemColumns, rows |-> <<SemPool[i]>>] : i \in 1..Len(SemPool)}
    \cup {[columns |-> SemColumns, rows |-> <<SemPool[i], SemPool[j]>>] :
            i \in 1..Len(SemPool), j \in 1..Len(SemPool)}

NoMerge == [called |-> FALSE, gsc_df |-> NoTable, semrush_df |-> NoTable,
            returned |-> <<>>]
NoHistory == [succeeded |-> FALSE, last |-> NoTable, failed_after |-> FALSE]
NoTimeline == [called |-> FALSE, raised |-> FALSE, rows |-> <<>>, applied |-> <<>>]

\* callers that use one forecaster at the same time
Requests == {"r1", "r2"}
ConcurrentDays == {90, 360}

\* a caller that has no call in flight and has made none
IdleRequest ==
    [phase |-> "idle", table_id |-> 1, table |-> NoTable, days |-> 0,
     analyzer |-> None, overlapped |-> FALSE, raised |-> FALSE, result |-> NoResult]
NoRequests == [r \in Requests |-> IdleRequest]

----------------------------------------------------------------------------
(* The session *)

Init ==
    /\ observed \in BOOLEAN
    /\ avg_improvement \in Improvements
    /\ df \in Datasets
    /\ ctr_by_position = None
    /\ lookup = NoLookup
    /\ calls = [d \in Days |-> {}]
    /\ ncalls = 0
    /\ sd = NoSafeDiv
    /\ sd_any = NoSafeDivAny
    /\ tv = NoTraffic
    /\ roi = NoRoi
    /\ opp = NoOpportunities
    /\ df2 = NoTable
    /\ reqs = NoRequests
    /\ merged = NoMerge
    /\ hist = NoHistory
    /\ timeline = NoTimeline

\* forecaster.forecast_performance(df, days, avg_improvement)
ForecastPerformance(days) ==
    /\ ncalls < MaxCalls
    /\ \E r \in {forecast_performance(df, days, avg_improvement, observed)} :
           /\ df' = r.df
           /\ calls' = [calls EXCEPT ![days] = @ \cup
                  {[raised |-> r.raised, time_scaling |-> r.time_scaling,
                    actual_improvement |-> r.actual_improvement,
                    projected |-> r.projected, result |-> r.result]}]
    /\ ncalls' = ncalls + 1
    /\ UNCHANGED <<observed, avg_improvement, ctr_by_position, lookup, sd, unitVars>>

Next == \E days \in Days : ForecastPerformance(days)

Spec == Init /\ [][Next]_vars

\* analyzer.calculate_ctr_by_position(df) on the session's analyzer
CalculateCtrByPosition ==
    /\ \E r \in {calculate_ctr_by_position(df, observed)} :
           /\ df' = r.df
           /\ ctr_by_position' = IF r.raised THEN ctr_by_position ELSE r.curve
    /\ UNCHANGED <<observed, avg_improvement, lookup, calls, ncalls, sd, unitVars>>

\* analyzer.get_ctr_for_position(position)
GetCtrForPosition(position) ==
    /\ lookup' = [called |-> TRUE, on_default |-> ctr_by_position.is_none,
                  position |-> position,
                  ctr |-> get_ctr_for_position(ctr_by_position, position)]
    /\ UNCHANGED <<observed, avg_improvement, df, ctr_by_position, calls, ncalls, sd, unitVars>>

InitAnalyzer == Init /\ avg_improvement = 5

NextAnalyzer ==
    \/ CalculateCtrByPosition
    \/ \E position \in Probes : GetCtrForPosition(position)

SpecAnalyzer == InitAnalyzer /\ [][NextAnalyzer]_vars

\* safe_div(numerator, denominator, fallback)
SafeDiv(numerator, denominator, fallback) ==
    /\ sd' = [called |-> TRUE, numerator |-> numerator, denominator |-> denominator,
              fallback |-> fallback,
              returned |-> safe_div(numerator, denominator, fallback)]
    /\ sd_any' = NoSafeDivAny
    /\ UNCHANGED <<observed, avg_improvement, df, ctr_by_position, lookup, calls, ncalls,
                   tv, roi, opp, df2, reqs, moreVars>>

InitSafeDiv ==
    /\ Init
    /\ observed
    /\ avg_improvement = 5
    /\ df = [columns |-> BaseColumns, rows |-> <<>>]

\* safe_div(numerator, denominator, fallback) with operands of any type
SafeDivAny(numerator, denominator, fallback) ==
    /\ \E r \in {safe_div_any(numerator, denominator, fallback)} :
           sd_any' = [called |-> TRUE, numerator |-> numerator,
                      denominator |-> denominator, fallback |-> fallback,
                      exception |-> r.exception, returned |-> r.returned]
    /\ sd' = NoSafeDiv
    /\ UNCHANGED <<observed, avg_improvement, df, ctr_by_position, lookup, calls, ncalls,
                   tv, roi, opp, df2, reqs, moreVars>>

NextSafeDiv ==
    \/ \E n \in Operands, d \in Operands, f \in Fallbacks : SafeDiv(n, d, f)
    \/ \E n \in AnyOperands, d \in AnyOperands, f \in Fallbacks \cup {Str} :
          SafeDivAny(n, d, f)

SpecSafeDiv == InitSafeDiv /\ [][NextSafeDiv]_vars

----------------------------------------------------------------------------
(* Properties *)

AllCalls == UNION {calls[d] : d \in Days}
Returned(d) == {c \in calls[d] : ~c.raised}
Gain(c) == Sub(c.result.total_projected_clicks, c.result.total_current_clicks)

\* C1: for a fixed table and a fixed avg_improvement > 0, the total click
\* gain returned at 360 days is >= the gain at 180 days, which is >= the
\* gain at 90 days.
C1_GainsOrdered ==
    avg_improvement > 0 =>
        /\ \A c1 \in Returned(90), c2 \in Returned(180) : Le(Gain(c1), Gain(c2))
        /\ \A c2 \in Returned(180), c3 \in Returned(360) : Le(Gain(c2), Gain(c3))

\* C2: the time scaling is 0.30 / 0.65 / 1.0 at 90 / 180 / 360 days and
\* days/360 elsewhere, and it is strictly increasing in the horizon: of two
\* calls, the one with the longer horizon used the larger scaling.
C2_ScalingMonotone ==
    /\ \A d \in Days : \A c \in calls[d] :
          ~IsNaN(c.time_scaling) =>
              c.time_scaling = (IF d = 90 THEN Fin(30, 100)
                                ELSE IF d = 180 THEN Fin(65, 100)
                                ELSE Fin(d, 360))
    /\ \A d1, d2 \in Days :
          d1 < d2 => \A c1 \in calls[d1], c2 \in calls[d2] :
              (~IsNaN(c1.time_scaling) /\ ~IsNaN(c2.time_scaling))
                  => Lt(c1.time_scaling, c2.time_scaling)

\* C3: on the canonical horizons the scaling is strictly ordered,
\* scaling(90) < scaling(180) < scaling(360), and so is the scaled
\* improvement when avg_improvement > 0.
C3_CanonicalOrder ==
    \A p \in {<<90, 180>>, <<180, 360>>} :
        \A c1 \in calls[p[1]], c2 \in calls[p[2]] :
            (~IsNaN(c1.time_scaling) /\ ~IsNaN(c2.time_scaling)) =>
                /\ Lt(c1.time_scaling, c2.time_scaling)
                /\ avg_improvement > 0
                      => Lt(c1.actual_improvement, c2.actual_improvement)

C3_Witness ==
    /\ avg_improvement > 0
    /\ \A d \in {90, 180, 360} : \E c \in calls[d] : ~IsNaN(c.time_scaling)

\* C4: a lookup at a finite position >= 1 returns a finite value in (0, 1],
\* whatever table the curve was built from, and on an empty table it returns
\* the value of the built-in default table.
C4_CtrBounds ==
    (lookup.called /\ IsFinite(lookup.position) /\ Le(Num(1), lookup.position)) =>
        /\ IsFinite(lookup.ctr)
        /\ Lt(Num(0), lookup.ctr)
        /\ Le(lookup.ctr, Num(1))
        /\ df.rows = <<>> => lookup.ctr = DefaultCtr[ClosestFrom(2, 1, lookup.position)]

\* C5: once a curve is built, a lookup at a position whose bucket had no
\* member record returns exactly 0.01.
C5_SparseFallback ==
    (/\ lookup.called
     /\ ~lookup.on_default
     /\ Members(df.rows, BucketOf(lookup.position)) = <<>>)
        => lookup.ctr = Fin(1, 100)

\* C6: forecast_performance leaves the table passed in as it was: the same
\* columns and the same values after every call, returned or raised.
C6_InputsUnchanged == [][df' = df]_vars

\* C7: every projected position, as computed and as retained in the
\* per-keyword table, is >= 1.
C7_PositionFloor ==
    \A c \in AllCalls : ~c.raised =>
        \A i \in 1..Len(c.projected) :
            /\ Le(Num(1), c.projected[i])
            /\ Le(Num(1), c.result.keyword_forecasts[i].Projected_Position)

\* a returned forecast of a record below position 1, or without a position,
\* that was floored to 1
C7_Witness ==
    \E c \in AllCalls : ~c.raised /\
        \E i \in 1..Len(c.projected) :
            /\ ~Le(Num(1), c.result.keyword_forecasts[i].Current_Position)
            /\ c.projected[i] = Num(1)

\* C8: two calls with the same table, horizon and avg_improvement return the
\* same output in every field, also on the same table object and forecaster.
C8_Deterministic == \A d \in Days : Cardinality(calls[d]) <= 1

\* some horizon was forecast twice on the table, and the forecast returned
C8_Witness ==
    /\ ncalls > Cardinality({d \in Days : calls[d] # {}})
    /\ \A d \in Days : Returned(d) = calls[d]
    /\ "Weighted_CTR" \in df.columns

IsScenario == Len(df.rows) = 5 /\ df.rows[1].Keyword = "s1"

\* C9: in the worked scenario (avg_improvement 10, 360 days) the keyword at
\* 8.5 is projected to 3.25, its projected CTR exceeds its current CTR and
\* its projected clicks exceed its current clicks.
C9_WorkedScenario ==
    (IsScenario /\ avg_improvement = 10) =>
        \A c \in Returned(360) :
            /\ c.projected[1] = Fin(325, 100)
            /\ Lt(c.result.keyword_forecasts[1].Current_CTR,
                  c.result.keyword_forecasts[1].Projected_CTR)
            /\ Lt(c.result.keyword_forecasts[1].Current_Clicks,
                  c.result.keyword_forecasts[1].Projected_Clicks)

\* C10: safe_div returns the fallback when the denominator is zero, NaN or
\* infinite or the quotient is NaN or infinite, and the quotient otherwise.
C10_SafeDiv ==
    sd.called =>
        LET q == TrueDiv(sd.numerator, sd.denominator)
        IN  IF \/ sd.denominator = Num(0)
               \/ IsNaN(sd.denominator)
               \/ IsInf(sd.denominator)
               \/ IsNaN(q)
               \/ IsInf(q)
            THEN sd.returned = sd.fallback
            ELSE sd.returned = q

\* a call with an infinite denominator and a finite numerator, whose float
\* quotient 0 differs from the fallback that was returned
C10_Witness ==
    /\ sd.called
    /\ IsInf(sd.denominator)
    /\ IsFinite(sd.numerator)
    /\ sd.fallback = Num(-1)
    /\ sd.returned = Num(-1)

\* _calculate_traffic_value(keyword_forecasts, original_df) called directly
TrafficValue(kf, original_df) ==
    /\ \E r \in {traffic_value_call(kf, original_df)} :
           tv' = [called |-> TRUE, kf |-> kf, original_df |-> original_df,
                  exception |-> r.exception, failed |-> r.failed,
                  returned |-> r.returned]
    /\ UNCHANGED <<observed, avg_improvement, df, ctr_by_position, lookup, calls, ncalls,
                   sd, sd_any, roi, opp, df2, reqs, moreVars>>

InitTraffic ==
    /\ Init
    /\ observed
    /\ avg_improvement = 5
    /\ df = [columns |-> BaseColumns, rows |-> <<>>]

NextTraffic == \E kf \in KfTables, original_df \in OrigTables : TrafficValue(kf, original_df)

SpecTraffic == InitTraffic /\ [][NextTraffic]_vars

\* forecaster.calculate_roi_potential(df, investment, avg_improvement)
CalculateRoiPotential(investment) ==
    /\ \E forecast \in {forecast_performance(df, 360, avg_improvement, observed)} :
        \E r \in {calculate_roi_potential(forecast, investment)} :
           /\ df' = r.df
           /\ roi' = [called |-> TRUE, table |-> df, investment |-> investment,
                      improvement_rate |-> avg_improvement,
                      raised |-> r.raised, result |-> r.result]
    /\ UNCHANGED <<observed, avg_improvement, ctr_by_position, lookup, calls, ncalls,
                   sd, sd_any, tv, opp, df2, reqs, moreVars>>

NextRoi == \E investment \in Investments : CalculateRoiPotential(investment)

InitRoi == Init /\ avg_improvement = 10

SpecRoi == InitRoi /\ [][NextRoi]_vars

\* analyzer.identify_opportunities(df, min_volume, max_position) on the
\* session's analyzer
IdentifyOpportunities(min_volume, max_position) ==
    /\ \E r \in {identify_opportunities(df, min_volume, max_position, ctr_by_position)} :
          \E returned \in r.returned :
             opp' = [called |-> TRUE, min_volume |-> min_volume,
                     max_position |-> max_position,
                     raised |-> r.raised, returned |-> returned]
    /\ UNCHANGED <<observed, avg_improvement, df, ctr_by_position, lookup, calls, ncalls,
                   sd, sd_any, tv, roi, df2, reqs, moreVars>>

InitOpportunities ==
    /\ observed \in BOOLEAN
    /\ avg_improvement = 5
    /\ df \in OppTables
    /\ ctr_by_position = None
    /\ lookup = NoLookup
    /\ calls = [d \in Days |-> {}]
    /\ ncalls = 0
    /\ sd = NoSafeDiv
    /\ sd_any = NoSafeDivAny
    /\ tv = NoTraffic
    /\ roi = NoRoi
    /\ opp = NoOpportunities
    /\ df2 = NoTable
    /\ reqs = NoRequests
    /\ merged = NoMerge
    /\ hist = NoHistory
    /\ timeline = NoTimeline

NextOpportunities ==
    \/ CalculateCtrByPosition
    \/ \E min_volume \in MinVolumes, max_position \in MaxPositions :
          IdentifyOpportunities(min_volume, max_position)

SpecOpportunities == InitOpportunities /\ [][NextOpportunities]_vars

\* the table a caller passes: its own (1) or the second caller's (2)
TableOf(t) == IF t = 1 THEN df ELSE df2

\* lines 50-53 of forecast_performance(TableOf(t), days, avg_improvement) for
\* caller r: a new analyzer builds its curve from the table (and adds its
\* columns to it); a failure ends the call
BeginForecast(r, t, days) ==
    /\ reqs[r].phase \in {"idle", "done"}
    /\ \E built \in {calculate_ctr_by_position(TableOf(t), observed)} :
          /\ df' = IF t = 1 THEN built.df ELSE df
          /\ df2' = IF t = 2 THEN built.df ELSE df2
          /\ reqs' = [q \in Requests |->
                IF q = r
                THEN [phase |-> IF built.raised THEN "done" ELSE "built",
                      table_id |-> t, table |-> TableOf(t), days |-> days,
                      analyzer |-> IF built.raised THEN None ELSE built.curve,
                      overlapped |-> FALSE, raised |-> built.raised,
                      result |-> NoResult]
                ELSE IF reqs[q].phase = "built"
                THEN [reqs[q] EXCEPT !.overlapped = TRUE]
                ELSE reqs[q]]
    /\ UNCHANGED <<observed, avg_improvement, ctr_by_position, lookup, calls, ncalls,
                   sd, sd_any, tv, roi, opp, moreVars>>

\* lines 56-89 of the call of caller r: the forecast on the call's analyzer
FinishForecast(r) ==
    /\ reqs[r].phase = "built"
    /\ \E f \in {forecast_from_curve(TableOf(reqs[r].table_id), reqs[r].days,
                                      avg_improvement, analyzer_of(reqs, r))} :
          reqs' = [reqs EXCEPT ![r].phase = "done", ![r].raised = f.raised,
                               ![r].result = f.result]
    /\ UNCHANGED <<observed, avg_improvement, df, ctr_by_position, lookup, calls, ncalls,
                   sd, sd_any, tv, roi, opp, df2, moreVars>>

\* the tables of the first caller; the second caller holds the worked
\* scenario
ConcurrentTables ==
    {[columns |-> BaseColumns, rows |-> Pick({2}, 1)],
     [columns |-> BaseColumns, rows |-> Pick({1, 5}, 1)],
     [columns |-> BaseColumns \cup {"CPC"}, rows |-> Pick({1, 2, 4}, 1)],
     [columns |-> BaseColumns \ {"Search Volume"}, rows |-> Pick({2}, 1)]}

InitConcurrent ==
    /\ observed \in BOOLEAN
    /\ avg_improvement = 10
    /\ df \in ConcurrentTables
    /\ df2 = Scenario(Fin(5, 100))
    /\ ctr_by_position = None
    /\ lookup = NoLookup
    /\ calls = [d \in Days |-> {}]
    /\ ncalls = 0
    /\ sd = NoSafeDiv
    /\ sd_any = NoSafeDivAny
    /\ tv = NoTraffic
    /\ roi = NoRoi
    /\ opp = NoOpportunities
    /\ reqs = NoRequests
    /\ merged = NoMerge
    /\ hist = NoHistory
    /\ timeline = NoTimeline

NextConcurrent ==
    \/ \E r \in Requests, t \in {1, 2}, days \in ConcurrentDays : BeginForecast(r, t, days)
    \/ \E r \in Requests : FinishForecast(r)

SpecConcurrent == InitConcurrent /\ [][NextConcurrent]_vars

\* DataLoader.merge_data(gsc_df, semrush_df)
MergeData(gsc_df, semrush_df) ==
    /\ \E returned \in merge_data(gsc_df, semrush_df) :
          merged' = [called |-> TRUE, gsc_df |-> gsc_df, semrush_df |-> semrush_df,
                     returned |-> returned]
    /\ UNCHANGED <<observed, avg_improvement, df, ctr_by_position, lookup, calls, ncalls,
                   sd, sd_any, tv, roi, opp, df2, reqs, hist, timeline>>

NextMerge == \E gsc_df \in GscTables, semrush_df \in SemTables : MergeData(gsc_df, semrush_df)

SpecMerge == InitTraffic /\ [][NextMerge]_vars

\* line 73 of calculate_ctr_by_position, were the except clause to clear the
\* stored curve
stored_curve_cleared(old, r) == IF r.raised THEN None ELSE r.curve

\* self.ctr_by_position after calculate_ctr_by_position: line 73 is the last
\* statement of the try block, so a call that raises never reaches it
stored_curve(old, r) == IF r.raised THEN old ELSE r.curve

\* records on and around the bucket boundaries
BoundaryPool ==
    <<Row("p0", Num(0), 1000, Fin(40, 100), NaN),
      Row("p1", Fin(5, 10), 1000, Fin(30, 100), NaN),
      Row("p2", Num(1), 500, Fin(25, 100), NaN),
      Row("p3", Num(10), 800, Fin(3, 100), NaN),
      Row("p4", Fin(105, 10), 700, Fin(2, 100), NaN),
      Row("p5", Num(15), 600, Fin(15, 1000), NaN),
      Row("p6", Num(100), 300, Fin(1, 1000), NaN),
      Row("p7", Num(120), 200, Fin(2, 1000), NaN)>>

RECURSIVE PickBoundary(_, _)
\* the rows of BoundaryPool whose index is in S, in pool order, from index i on
PickBoundary(S, i) ==
    IF i > Len(BoundaryPool) THEN <<>>
    ELSE IF i \in S THEN <<BoundaryPool[i]>> \o PickBoundary(S, i + 1)
         ELSE PickBoundary(S, i + 1)

\* the first table of a session that rebuilds its curve: one or two boundary
\* records
BoundaryTables ==
    {[columns |-> BaseColumns, rows |-> PickBoundary(S, 1)] :
        S \in {T \in SUBSET (1..Len(BoundaryPool)) : Cardinality(T) \in {1, 2}}}

\* its second table: the worked scenario, or a table without 'Search Volume'
SecondTables ==
    {Scenario(Fin(5, 100)),
     [columns |-> BaseColumns \ {"Search Volume"}, rows |-> Pick({2}, 1)]}

\* positions looked up between builds
RebuildProbes == {Num(0), Num(10), Fin(175, 10), Num(120)}

\* analyzer.calculate_ctr_by_position(t) on the session's analyzer, for either
\* table of the session; hist keeps which table the last successful build
\* read and whether a build has raised since, and lookup is cleared so that
\* it records a lookup made after the last build
BuildCurve(t) ==
    /\ \E r \in {calculate_ctr_by_position(TableOf(t), observed)} :
           /\ df' = IF t = 1 THEN r.df ELSE df
           /\ df2' = IF t = 2 THEN r.df ELSE df2
           /\ ctr_by_position' = stored_curve(ctr_by_position, r)
           /\ hist' = IF r.raised
                      THEN [hist EXCEPT !.failed_after = TRUE]
                      ELSE [succeeded |-> TRUE, last |-> TableOf(t),
                            failed_after |-> FALSE]
    /\ lookup' = NoLookup
    /\ UNCHANGED <<observed, avg_improvement, calls, ncalls, sd, sd_any, tv, roi, opp,
                   reqs, merged, timeline>>

InitRebuild ==
    /\ observed \in BOOLEAN
    /\ avg_improvement = 5
    /\ df \in BoundaryTables
    /\ df2 \in SecondTables
    /\ ctr_by_position = None
    /\ lookup = NoLookup
    /\ calls = [d \in Days |-> {}]
    /\ ncalls = 0
    /\ sd = NoSafeDiv
    /\ sd_any = NoSafeDivAny
    /\ tv = NoTraffic
    /\ roi = NoRoi
    /\ opp = NoOpportunities
    /\ reqs = NoRequests
    /\ merged = NoMerge
    /\ hist = NoHistory
    /\ timeline = NoTimeline

NextRebuild ==
    \/ \E t \in {1, 2} : BuildCurve(t)
    \/ \E position \in RebuildProbes : GetCtrForPosition(position)

SpecRebuild == InitRebuild /\ [][NextRebuild]_vars

\* forecaster.create_timeline_forecast(df, avg_improvement)
CreateTimelineForecast ==
    /\ \E forecasts \in {timeline_forecasts(df, 1, avg_improvement, observed)} :
       \E r \in {create_timeline_forecast(forecasts)} :
           /\ df' = r.df
           /\ timeline' = [called |-> TRUE, raised |-> r.raised, rows |-> r.rows,
                           applied |-> r.applied]
    /\ UNCHANGED <<observed, avg_improvement, ctr_by_position, lookup, calls, ncalls,
                   sd, sd_any, tv, roi, opp, df2, reqs, merged, hist>>

NextTimeline == CreateTimelineForecast

SpecTimeline == Init /\ [][NextTimeline]_vars

\* C11: no exception escapes safe_div, whatever the types and values of its
\* arguments: every call returns a value.
C11_NoEscape == sd_any.called => sd_any.exception = "none"

\* C12: before any curve is built, a lookup returns the default-table CTR of
\* the key closest to the position, the lower key on a tie; at 17.5 that is
\* key 15 with CTR 0.008.
C12_DefaultClosest ==
    (lookup.called /\ lookup.on_default) =>
        /\ \E i \in 1..Len(DefaultKeys) :
              /\ lookup.ctr = DefaultCtr[i]
              /\ \A j \in 1..Len(DefaultKeys) :
                    /\ ~Lt(Dist(DefaultKeys[j], lookup.position),
                           Dist(DefaultKeys[i], lookup.position))
                    /\ Dist(DefaultKeys[j], lookup.position)
                         = Dist(DefaultKeys[i], lookup.position)
                       => DefaultKeys[i] <= DefaultKeys[j]
        /\ lookup.position = Fin(175, 10) => lookup.ctr = Fin(8, 1000)

C12_Witness ==
    /\ lookup.called
    /\ lookup.on_default
    /\ lookup.position = Fin(175, 10)
    /\ lookup.ctr = DefaultCtr[15]
    /\ DefaultKeys[15] = 15

\* C13: _calculate_traffic_value never raises and never returns NaN or an
\* infinity; when its body fails (a missing column, None for the forecast
\* table, a CPC that is not a number) it returns 0.
C13_TrafficValueTotal ==
    tv.called =>
        /\ tv.exception = "none"
        /\ IsFinite(tv.returned)
        /\ tv.failed => tv.returned = Num(0)
        /\ IsNoneTable(tv.kf) => tv.returned = Num(0)
        /\ (tv.kf.rows # <<>> /\ "Projected Clicks" \notin tv.kf.columns)
              => tv.returned = Num(0)

C13_Witness ==
    /\ tv.called
    /\ tv.failed
    /\ ~IsNoneTable(tv.kf)
    /\ "Projected Clicks" \in tv.kf.columns
    /\ "Keyword" \notin tv.original_df.columns
    /\ tv.returned = Num(0)

\* the CPC tiers as the specification lists them: threshold and CPC
Tiers == <<<<0, Fin(5, 10)>>, <<100, Fin(12, 10)>>, <<1000, Fin(25, 10)>>,
           <<10000, Num(5)>>, <<50000, Num(8)>>>>

\* the CPC of the highest tier whose threshold the volume reaches
TierOfVolume(volume) ==
    LET ok == {i \in 1..Len(Tiers) : IsFinite(volume) /\ Le(Num(Tiers[i][1]), volume)}
    IN  IF ok = {} THEN Fin(5, 10)
        ELSE Tiers[CHOOSE i \in ok : \A j \in ok : j <= i][2]

\* the table carries CPCs: a CPC column that is not NaN throughout
HasOwnCpc(t) ==
    /\ ~IsNoneTable(t)
    /\ "CPC" \in t.columns
    /\ \E i \in 1..Len(t.rows) : ~IsNaN(t.rows[i].CPC)

\* the CPC the specification applies to one forecast row
AppliedCpc(t, r) ==
    IF HasOwnCpc(t)
    THEN LET own == {i \in 1..Len(t.rows) : t.rows[i].Keyword = r.Keyword}
             last == CHOOSE i \in own : \A j \in own : j <= i
         IN  IF own = {} THEN Fin(5, 10)
             ELSE IF IsFinite(t.rows[last].CPC) THEN t.rows[last].CPC
             ELSE Fin(5, 10)
    ELSE TierOfVolume(r.Search_Volume)

\* projected clicks of a row, a missing or infinite value counting as 0
ClicksOf(r) == IF IsFinite(r.Projected_Clicks) THEN r.Projected_Clicks ELSE Num(0)

\* C14: when the body does not fail, the traffic value is the sum over the
\* keywords of projected clicks times the applied CPC (the keyword's own CPC,
\* 0.5 when missing, NaN or infinite, if the table carries CPCs, else the
\* volume tier), rounded to the nearest integer.
C14_TrafficValueFormula ==
    (tv.called /\ ~tv.failed) =>
        tv.returned =
            Round(SumSeq([i \in 1..Len(tv.kf.rows) |->
                     Mul(ClicksOf(tv.kf.rows[i]),
                         AppliedCpc(tv.original_df, tv.kf.rows[i]))]), 0)

C14_Witness ==
    /\ tv.called
    /\ ~tv.failed
    /\ ~HasOwnCpc(tv.original_df)
    /\ Len(tv.kf.rows) = 1
    /\ tv.kf.rows[1].Search_Volume = Num(10000)
    /\ tv.kf.rows[1].Projected_Clicks = Num(81)
    /\ tv.returned = Num(405)

\* C15: calculate_roi_potential returns roi_percentage =
\* safe_div(traffic_value - investment, max(investment, 1), 0) * 100 and
\* payback_months = safe_div(investment, max(traffic_value / 12, 1), 0), each
\* rounded to one decimal; with investment 0 it raises only when the forecast
\* of the table itself raises, and both figures are finite.
C15_RoiGuarded ==
    roi.called =>
        LET value == roi.result.traffic_value_annual
            inv == roi.investment
        IN  /\ ~roi.raised =>
                  /\ roi.result.roi_percentage =
                        Round(Mul(safe_div(Sub(value, inv), PyMax(inv, Num(1)), Num(0)),
                                  Num(100)), 1)
                  /\ roi.result.payback_months =
                        Round(safe_div(inv, PyMax(TrueDiv(value, Num(12)), Num(1)),
                                       Num(0)), 1)
            /\ roi.investment = Num(0) =>
                  /\ roi.raised =>
                        forecast_performance(roi.table, 360, roi.improvement_rate,
                                             observed).raised
                  /\ ~roi.raised =>
                        /\ IsFinite(roi.result.roi_percentage)
                        /\ IsFinite(roi.result.payback_months)

C15_Witness ==
    /\ roi.called
    /\ ~roi.raised
    /\ roi.investment = Num(0)
    /\ Lt(Num(0), roi.result.traffic_value_annual)
    /\ roi.result.roi_percentage = Mul(roi.result.traffic_value_annual, Num(100))
    /\ roi.result.payback_months = Num(0)

\* the records of the table that meet the opportunity conditions
Qualifies(r) ==
    /\ Le(Num(opp.min_volume), r.Search_Volume)
    /\ Lt(Num(1), r.Current_Position)
    /\ Le(r.Current_Position, Num(opp.max_position))

\* C16: the rows identify_opportunities returns are exactly the records with
\* search volume >= min_volume and 1 < position <= max_position; a record at
\* position 1 is never among them.
C16_FilterExact ==
    (opp.called /\ ~opp.raised) =>
        /\ \A i \in 1..Len(opp.returned) :
              /\ Qualifies(opp.returned[i])
              /\ opp.returned[i].Current_Position # Num(1)
              /\ \E j \in 1..Len(df.rows) :
                    /\ df.rows[j].Keyword = opp.returned[i].Keyword
                    /\ df.rows[j].Current_Position = opp.returned[i].Current_Position
                    /\ df.rows[j].Search_Volume = opp.returned[i].Search_Volume
        /\ \A j \in 1..Len(df.rows) :
              Qualifies(df.rows[j]) =>
                  \E i \in 1..Len(opp.returned) :
                      opp.returned[i].Keyword = df.rows[j].Keyword
        /\ Len(opp.returned) = Cardinality({j \in 1..Len(df.rows) : Qualifies(df.rows[j])})

C16_Witness ==
    /\ opp.called
    /\ ~opp.raised
    /\ Len(opp.returned) >= 2
    /\ \E j \in 1..Len(df.rows) :
          /\ df.rows[j].Current_Position = Num(1)
          /\ Le(Num(opp.min_volume), df.rows[j].Search_Volume)

\* C17: each returned row's score is volume * safe_div(1, position, 0) *
\* safe_div(100 - difficulty, 100, 0), and of two consecutive returned rows
\* the earlier has a score >= the later.
C17_SortedByScore ==
    (opp.called /\ ~opp.raised) =>
        /\ \A i \in 1..Len(opp.returned) :
              LET r == opp.returned[i]
              IN  r.Opportunity_Score =
                      Mul(Mul(r.Search_Volume,
                              safe_div(Num(1), r.Current_Position, Num(0))),
                          safe_div(Sub(Num(100), r.Keyword_Difficulty), Num(100), Num(0)))
        /\ \A i \in 1..(Len(opp.returned) - 1) :
              Le(opp.returned[i + 1].Opportunity_Score, opp.returned[i].Opportunity_Score)

C17_Witness ==
    /\ opp.called
    /\ ~opp.raised
    /\ Len(opp.returned) >= 3
    /\ \E i \in 1..(Len(opp.returned) - 1) :
          /\ Lt(opp.returned[i + 1].Opportunity_Score, opp.returned[i].Opportunity_Score)
          /\ Lt(opp.returned[i].Current_Position, opp.returned[i + 1].Current_Position)
    /\ \E i \in 1..(Len(opp.returned) - 1) :
          Lt(opp.returned[i + 1].Current_Position, opp.returned[i].Current_Position)

\* C18: when no record of a table that has the filtered columns passes the
\* filter (a table without rows included), identify_opportunities returns an
\* empty result and does not raise.
C18_EmptyResult ==
    (/\ opp.called
     /\ {"Search Volume", "Current Position"} \subseteq df.columns
     /\ \A j \in 1..Len(df.rows) : ~Qualifies(df.rows[j]))
        => (~opp.raised /\ opp.returned = <<>>)

C18_Witness ==
    /\ opp.called
    /\ df.rows # <<>>
    /\ "Keyword Difficulty" \notin df.columns
    /\ \A j \in 1..Len(df.rows) : ~Qualifies(df.rows[j])
    /\ ~opp.raised
    /\ opp.returned = <<>>

\* the columns forecast_performance reads from every table
RequiredColumns == {"Keyword", "Current Position", "Search Volume", "CTR"}

C20_NoSharedCurve ==
    \A r \in Requests :
        reqs[r].phase = "done" =>
            LET alone == forecast_performance(reqs[r].table, reqs[r].days,
                                              avg_improvement, observed)
            IN  /\ reqs[r].raised = alone.raised
                /\ reqs[r].result = alone.result

\* a call returned after another caller built a curve from a different table
\* between its two steps
C20_Witness ==
    \E r \in Requests, q \in Requests :
        /\ reqs[r].phase = "done"
        /\ reqs[r].overlapped
        /\ ~reqs[r].raised
        /\ reqs[q].phase \in {"built", "done"}
        /\ reqs[q].table_id # reqs[r].table_id
        /\ reqs[q].analyzer # reqs[r].analyzer

\* the joined rows of a keyword: every pairing of a Search Console row and a
\* SEMrush row of that keyword
JoinedPositions(kw) ==
    {merged.semrush_df.rows[j].Position :
        j \in {k \in 1..Len(merged.semrush_df.rows) :
                  merged.semrush_df.rows[k].Keyword = kw}}

\* the keywords present in both tables
JoinedKeywords ==
    {merged.gsc_df.rows[i].Query : i \in 1..Len(merged.gsc_df.rows)}
    \cap {merged.semrush_df.rows[j].Keyword : j \in 1..Len(merged.semrush_df.rows)}

\* C21: the table merge_data returns holds exactly one record for each
\* keyword present in both inputs, and that record carries the lowest
\* Current Position among the keyword's joined rows.
C21_OnePerKeyword ==
    merged.called =>
        /\ \A i, j \in 1..Len(merged.returned) :
              i # j => merged.returned[i].Keyword # merged.returned[j].Keyword
        /\ {merged.returned[i].Keyword : i \in 1..Len(merged.returned)} = JoinedKeywords
        /\ \A i \in 1..Len(merged.returned) :
              \A p \in JoinedPositions(merged.returned[i].Keyword) :
                  IsNaN(p) \/ Le(merged.returned[i].Current_Position, p)

C21_Witness ==
    /\ merged.called
    /\ Len(merged.gsc_df.rows) = 2
    /\ Len(merged.semrush_df.rows) = 2
    /\ Len(merged.returned) = 1
    /\ merged.semrush_df.rows[1].Position = Num(5)
    /\ merged.returned[1].Current_Position = Num(2)

\* the damping factor d(p) of the specification
Damping(p) ==
    IF Le(p, Num(3)) THEN Fin(4, 10) ELSE IF Le(p, Num(10)) THEN Fin(7, 10) ELSE Num(1)

\* max(1, p - d(p) * min(s, p - 1)) for a position p and a scaled improvement s
DampedProjection(p, s) ==
    LET headroom == Sub(p, Num(1))
        raw == IF Le(s, headroom) THEN s ELSE headroom
        target == Sub(p, Mul(Damping(p), raw))
    IN  IF Le(Num(1), target) THEN target ELSE Num(1)

\* C22: for every record with a position, the unrounded projected position
\* of a returned forecast is max(1, p - d(p) * min(s, p - 1)), with s the
\* scaled improvement of the call and d(p) chosen by the current position.
C22_ProjectionFormula ==
    \A c \in AllCalls : ~c.raised =>
        \A i \in 1..Len(c.projected) :
            IsFinite(df.rows[i].Current_Position) =>
                c.projected[i] =
                    DampedProjection(df.rows[i].Current_Position, c.actual_improvement)

\* a capped and damped record (2.5 -> 1.9) and an uncapped one (8.5 -> 6.4)
C22_Witness ==
    /\ \E c \in AllCalls : \E i \in 1..Len(c.projected) :
          /\ ~c.raised
          /\ df.rows[i].Current_Position = Fin(25, 10)
          /\ c.actual_improvement = Num(10)
          /\ c.projected[i] = Fin(19, 10)
    /\ \E c \in AllCalls : \E i \in 1..Len(c.projected) :
          /\ ~c.raised
          /\ df.rows[i].Current_Position = Fin(85, 10)
          /\ c.actual_improvement = Num(3)
          /\ c.projected[i] = Fin(64, 10)

\* the sum of a column of per-keyword clicks, missing values skipped
TotalOf(clicks) == SumSeq(clicks)

\* safe_div(total_projected - total_current, max(total_current, 1), 0) * 100
\* over the per-keyword table of a returned call
IncreasePct(c) ==
    LET kf == c.result.keyword_forecasts
        total_current == TotalOf([i \in 1..Len(kf) |-> kf[i].Current_Clicks])
        total_projected == TotalOf([i \in 1..Len(kf) |-> kf[i].Projected_Clicks])
    IN  Mul(safe_div(Sub(total_projected, total_current),
                     IF Lt(total_current, Num(1)) THEN Num(1) ELSE total_current,
                     Num(0)), Num(100))

\* C23 as stated: the returned value_increase_pct is the returned
\* clicks_increase_pct times 0.95.
C23_ValueFromReturnedPct ==
    \A c \in AllCalls : ~c.raised =>
        c.result.value_increase_pct = Mul(c.result.clicks_increase_pct, Fin(95, 100))

\* C23: the returned totals are the sums of the per-keyword current and
\* projected clicks; clicks_increase_pct is safe_div(total_projected -
\* total_current, max(total_current, 1), 0) * 100 rounded to one decimal, and
\* value_increase_pct is 0.95 times that unrounded percentage, itself rounded
\* to one decimal.
C23_Aggregates ==
    \A c \in AllCalls : ~c.raised =>
        LET kf == c.result.keyword_forecasts
        IN  /\ c.result.total_current_clicks =
                  TotalOf([i \in 1..Len(kf) |-> kf[i].Current_Clicks])
            /\ c.result.total_projected_clicks =
                  TotalOf([i \in 1..Len(kf) |-> kf[i].Projected_Clicks])
            /\ c.result.clicks_increase_pct = Round(IncreasePct(c), 1)
            /\ c.result.value_increase_pct =
                  Round(Mul(IncreasePct(c), Fin(95, 100)), 1)

\* a returned call whose two percentages are rounded apart
C23_Witness ==
    \E c \in AllCalls :
        /\ ~c.raised
        /\ Len(c.result.keyword_forecasts) >= 2
        /\ c.result.value_increase_pct # Mul(c.result.clicks_increase_pct, Fin(95, 100))
        /\ c.result.value_increase_pct = Round(Mul(IncreasePct(c), Fin(95, 100)), 1)

\* the bucket the specification gives a position of [0, 100]: the first
\* bucket whose upper edge is not below it
RECURSIVE ClosedCoverFrom(_, _)
ClosedCoverFrom(i, x) ==
    IF i = Len(Labels) \/ Le(x, Num(Bins[i + 1])) THEN Labels[i]
    ELSE ClosedCoverFrom(i + 1, x)

InRange(x) == ~IsNaN(x) /\ Le(Num(0), x) /\ Le(x, Num(100))

\* the stored curve is the one built from the session's first table
BuiltFromFirst ==
    /\ hist.succeeded
    /\ "Position_Bucket" \in df.columns
    /\ [i \in 1..Len(hist.last.rows) |-> hist.last.rows[i].Keyword]
         = [i \in 1..Len(df.rows) |-> df.rows[i].Keyword]

\* C24: curve building gives every position in [0, 100] one of the 15
\* buckets, a position on a boundary going to the lower bucket (10 to '10',
\* 15 to '11-15'); no position in [0, 100] is left without a bucket.
C24_ClosedCover ==
    \A i \in 1..Len(df.rows) :
        (BuiltFromFirst /\ InRange(df.rows[i].Current_Position))
            => /\ df.rows[i].Position_Bucket # NoBucket
               /\ df.rows[i].Position_Bucket = ClosedCoverFrom(1, df.rows[i].Current_Position)

\* the curve of the last successful build, recomputed from the table it read
LastBuilt == calculate_ctr_by_position(hist.last, observed).curve

\* C25: the lookup depends only on the most recent successful build: the
\* default table is consulted exactly when no build has succeeded on the
\* analyzer, a build that raises leaves the stored curve (or its absence) as
\* it was, and a successful build replaces the curve entirely.
C25_LastSuccessfulBuild ==
    /\ ctr_by_position.is_none <=> ~hist.succeeded
    /\ hist.succeeded => ctr_by_position = LastBuilt
    /\ lookup.called =>
          /\ lookup.on_default <=> ~hist.succeeded
          /\ lookup.ctr = IF hist.succeeded
                          THEN get_ctr_for_position(LastBuilt, lookup.position)
                          ELSE DefaultCtr[ClosestFrom(2, 1, lookup.position)]

\* a lookup answered from the curve of the second table after the build of the
\* first table raised
C25_Witness ==
    /\ hist.succeeded /\ hist.failed_after
    /\ Len(hist.last.rows) = 5
    /\ "Position_Bucket" \in df.columns
    /\ lookup.called /\ ~lookup.on_default
    /\ lookup.position = Fin(175, 10)
    /\ lookup.ctr = Fin(9, 1000)

\* C26: curve building and lookup agree on the bucket of a position: the
\* bucket whose statistics get_ctr_for_position(p) reads is the bucket
\* calculate_ctr_by_position gave a record at p, also above 100 and at or
\* below 0.
C26_BucketsAgree ==
    \A i \in 1..Len(df.rows) :
        (BuiltFromFirst /\ ~IsNaN(df.rows[i].Current_Position))
            => df.rows[i].Position_Bucket = BucketOf(df.rows[i].Current_Position)

\* C27: the projection preserves ranking order: under one scaled improvement
\* s >= 0, of two records at positions p1 <= p2 (both >= 1) the first is
\* projected no worse than the second, also across the tiers at 3 and 10.
C27_OrderPreserved ==
    \A c \in AllCalls : (~c.raised /\ Le(Num(0), c.actual_improvement)) =>
        \A i, j \in 1..Len(c.projected) :
            (/\ IsFinite(df.rows[i].Current_Position)
             /\ IsFinite(df.rows[j].Current_Position)
             /\ Le(Num(1), df.rows[i].Current_Position)
             /\ Le(df.rows[i].Current_Position, df.rows[j].Current_Position))
                => Le(c.projected[i], c.projected[j])

\* the records of the session's table currently in the top 10
CurrentTop10 == {i \in 1..Len(df.rows) : Le(df.rows[i].Current_Position, Num(10))}

\* every record of the session's table has a position >= 1
AllRanked ==
    \A i \in 1..Len(df.rows) :
        IsFinite(df.rows[i].Current_Position) /\ Le(Num(1), df.rows[i].Current_Position)

\* C28: with avg_improvement >= 0, a record at a position >= 1 is projected
\* at or above its current position; when every record is such, the number
\* of keywords projected in the top 10 (on the position rounded to 1
\* decimal) is >= the number currently there and top10_increase >= 0.
C28_NeverWorse ==
    \A c \in AllCalls : (~c.raised /\ avg_improvement >= 0) =>
        /\ \A i \in 1..Len(c.projected) :
              (IsFinite(df.rows[i].Current_Position)
                 /\ Le(Num(1), df.rows[i].Current_Position))
                  => Le(c.projected[i], df.rows[i].Current_Position)
        /\ AllRanked =>
              /\ c.result.keywords_top_10 >= Cardinality(CurrentTop10)
              /\ c.result.keywords_top_10 =
                    Cardinality({i \in 1..Len(c.projected) :
                        Le(Round(c.projected[i], 1), Num(10))})
              /\ c.result.top10_increase >= 0

\* a returned forecast that brings a keyword from 12.3 into the top 10
C28_Witness ==
    \E c \in AllCalls :
        /\ ~c.raised /\ avg_improvement >= 0 /\ AllRanked
        /\ \E i \in 1..Len(c.projected) :
              /\ df.rows[i].Current_Position = Fin(123, 10)
              /\ Le(c.projected[i], Num(10))
        /\ c.result.top10_increase > 0

\* C29: in every row of the per-keyword forecast table, Click Increase equals
\* Projected Clicks minus Current Clicks as that row shows them (rounded to
\* integers).
C29_RowConsistent ==
    \A c \in AllCalls : ~c.raised =>
        \A i \in 1..Len(c.result.keyword_forecasts) :
            LET row == c.result.keyword_forecasts[i]
            IN  (IsFinite(row.Current_Clicks) /\ IsFinite(row.Projected_Clicks))
                    => row.Click_Increase = Sub(row.Projected_Clicks, row.Current_Clicks)

\* C30: create_timeline_forecast produces its 12 rows in month order 1..12
\* with Days = 30 * Month, Current_Clicks is the same in every row, and (for
\* an improvement rate >= 0) the scaled improvement applied never decreases
\* from one month to the next, also around months 3 and 6.
C30_Timeline ==
    (timeline.called /\ ~timeline.raised) =>
        /\ Len(timeline.rows) = 12
        /\ \A m \in 1..12 :
              /\ timeline.rows[m].Month = m
              /\ timeline.rows[m].Days = 30 * m
              /\ timeline.rows[m].Current_Clicks = timeline.rows[1].Current_Clicks
        /\ avg_improvement >= 0 =>
              \A m \in 1..11 : Le(timeline.applied[m], timeline.applied[m + 1])


====
